---- MODULE Spec2Model ----
(***************************************************************************)
(* Model of the basic-block cache of lab1/ex_2/MyPinTool.cpp: the class    *)
(* BBLCache (a std::deque of block addresses with a maximum size and       *)
(* three counters), the analysis routine CountBbl that feeds it, and the   *)
(* Fini callback that reads it back.                                       *)
(*                                                                         *)
(* The front of the deque is index 1 of the sequence blockCache, so        *)
(* push_front prepends and pop_back drops the last element.                *)
(*                                                                         *)
(* UINT32 values are kept as a pair of 16-bit halves [hi, lo], so that the *)
(* INT32 -> UINT32 conversion of the constructor argument is exact.  The   *)
(* UINT64 counters cannot wrap within MaxCalls calls and are plain         *)
(* integers.                                                               *)
(***************************************************************************)
EXTENDS Integers, Sequences, FiniteSets

\* ---------------------------------------------------------------- bounds
\* number of distinct basic-block addresses the driver presents
NumIds == 4
\* largest value given to the -n knob
MaxKnob == 3
\* number of CountBbl calls in one run
MaxCalls == 6
\* number of CountBbl calls in one run of the two-thread specification
MaxConcCalls == 2

BBLs == 1..NumIds
KnobValues == {-1} \cup (0..MaxKnob)
\* the application threads whose basic blocks call CountBbl
Threads == {1, 2}

VARIABLES
    knob,        \* KnobSizeN.Value(), an INT32
    _max_size,   \* BBLCache::_max_size, a UINT32 as [hi, lo]
    blockCache,  \* BBLCache::blockCache, front first
    bblCount,    \* BBLCache::bblCount
    nMisses,     \* BBLCache::nMisses
    nHits,       \* BBLCache::nHits
    finished,    \* Fini has run
    report,      \* the four values Fini prints
    log,         \* history: the argument of every CountBbl call with the
                 \* deque and the counters as they were when it began
    thr,         \* per thread: where it is inside CountBbl (pc), its
                 \* argument (bbl) and the counter value it has loaded (reg)
    overlapped   \* history: some call began while another was in flight

vars == <<knob, _max_size, blockCache, bblCount, nMisses, nHits,
          finished, report, log, thr, overlapped>>

\* a thread that is not inside CountBbl
Idle == [pc |-> "idle", bbl |-> 0, reg |-> 0]

AllIdle == \A t \in Threads : thr[t].pc = "idle"

\* ------------------------------------------------------- pure operations
\* conversion of the INT32 knob value to the UINT32 constructor parameter
ToUINT32(k) ==
    IF k >= 0
    THEN [hi |-> k \div 65536, lo |-> k % 65536]
    ELSE LET m == (k + 2147483647) + 1
         IN  [hi |-> 32768 + (m \div 65536), lo |-> m % 65536]

\* blockCache.size() > _max_size + 1: one block too many is let through
SizeGreater_offByOne(n, m) ==
    LET hi == (n - 1) \div 65536
        lo == (n - 1) % 65536
    IN  n >= 1 /\ (hi > m.hi \/ (hi = m.hi /\ lo > m.lo))

\* blockCache.size() > _max_size, the size_t on the left being wider
SizeGreater(n, m) ==
    LET hi == n \div 65536
        lo == n % 65536
    IN  hi > m.hi \/ (hi = m.hi /\ lo > m.lo)

\* a scan that looks at the front block only
Scan_frontOnly(q, bbl) == q # <<>> /\ Head(q) = bbl

\* the range-for loop of push: stops at the first equal block
RECURSIVE Scan(_, _)
Scan(q, bbl) ==
    IF q = <<>> THEN FALSE
    ELSE IF Head(q) = bbl THEN TRUE
    ELSE Scan(Tail(q), bbl)

\* operator-- written for operator++
Inc_dec(x) == x - 1

\* operator++ on a counter
Inc(x) == x + 1

push_front(bbl, q) == <<bbl>> \o q

\* pop_front written for pop_back
pop_front(q) == Tail(q)

\* BBLCache::pop: pop_back
pop(q) == SubSeq(q, 1, Len(q) - 1)

get_size == Len(blockCache)

\* --------------------------------------------------------------- actions
\* nMisses++ outside the if (!present)
push_MissAlways(bbl) ==
    /\ nMisses' = Inc(nMisses)
    /\ IF Scan(blockCache, bbl)
       THEN /\ nHits' = Inc(nHits)
            /\ UNCHANGED blockCache
       ELSE /\ blockCache' =
                   LET q == push_front(bbl, blockCache)
                   IN  IF SizeGreater(Len(q), _max_size) THEN pop(q) ELSE q
            /\ UNCHANGED nHits

\* a hit moves the block to the front (true LRU)
push_LRU(bbl) ==
    IF Scan(blockCache, bbl)
    THEN /\ nHits' = Inc(nHits)
         /\ blockCache' =
                push_front(bbl, SelectSeq(blockCache, LAMBDA b : b # bbl))
         /\ UNCHANGED nMisses
    ELSE /\ nMisses' = Inc(nMisses)
         /\ blockCache' =
                LET q == push_front(bbl, blockCache)
                IN  IF SizeGreater(Len(q), _max_size) THEN pop(q) ELSE q
         /\ UNCHANGED nHits

\* the size test made before push_front instead of after it
push_checkBefore(bbl) ==
    IF Scan(blockCache, bbl)
    THEN /\ nHits' = Inc(nHits)
         /\ UNCHANGED <<nMisses, blockCache>>
    ELSE /\ nMisses' = Inc(nMisses)
         /\ blockCache' =
                LET q == push_front(bbl, blockCache)
                IN  IF SizeGreater(Len(blockCache), _max_size)
                    THEN pop(q) ELSE q
         /\ UNCHANGED nHits

push(bbl) ==
    IF Scan(blockCache, bbl)
    THEN /\ nHits' = Inc(nHits)
         /\ UNCHANGED <<nMisses, blockCache>>
    ELSE /\ nMisses' = Inc(nMisses)
         /\ blockCache' =
                LET q == push_front(bbl, blockCache)
                IN  IF SizeGreater(Len(q), _max_size) THEN pop(q) ELSE q
         /\ UNCHANGED nHits

\* bblCount++ moved into the miss path
CountBbl_onlyMiss(bbl_addr) ==
    /\ ~finished
    /\ bblCount < MaxCalls
    /\ bblCount' = IF Scan(blockCache, bbl_addr)
                   THEN bblCount ELSE Inc(bblCount)
    /\ push(bbl_addr)
    /\ log' = Append(log, [bbl |-> bbl_addr, pre |-> blockCache,
                            bblCount |-> bblCount, nHits |-> nHits,
                            nMisses |-> nMisses])
    /\ UNCHANGED <<knob, _max_size, finished, report, thr, overlapped>>

CountBbl(bbl_addr) ==
    /\ ~finished
    /\ bblCount < MaxCalls
    /\ bblCount' = Inc(bblCount)
    /\ push(bbl_addr)
    /\ log' = Append(log, [bbl |-> bbl_addr, pre |-> blockCache,
                            bblCount |-> bblCount, nHits |-> nHits,
                            nMisses |-> nMisses])
    /\ UNCHANGED <<knob, _max_size, finished, report, thr, overlapped>>

\* called when the application exits, so no thread is inside CountBbl
Fini ==
    /\ ~finished
    /\ AllIdle
    /\ finished' = TRUE
    /\ report' = <<bblCount, nHits, nMisses, get_size>>
    /\ UNCHANGED <<knob, _max_size, blockCache, bblCount, nMisses, nHits,
                   log, thr, overlapped>>

\* the counters declared without their "= 0" initialisers: each starts with
\* whatever the allocation holds
Init_uninit ==
    /\ knob \in KnobValues
    /\ _max_size = ToUINT32(knob)
    /\ blockCache = <<>>
    /\ bblCount \in 0..1
    /\ nMisses \in 0..1
    /\ nHits \in 0..1
    /\ finished = FALSE
    /\ report = <<>>
    /\ log = <<>>
    /\ thr = [t \in Threads |-> Idle]
    /\ overlapped = FALSE

\* main: cache = new BBLCache(KnobSizeN.Value())
Init ==
    /\ knob \in KnobValues
    /\ _max_size = ToUINT32(knob)
    /\ blockCache = <<>>
    /\ bblCount = 0
    /\ nMisses = 0
    /\ nHits = 0
    /\ finished = FALSE
    /\ report = <<>>
    /\ log = <<>>
    /\ thr = [t \in Threads |-> Idle]
    /\ overlapped = FALSE

Next ==
    \/ \E bbl_addr \in BBLs : CountBbl(bbl_addr)
    \/ Fini

Spec == Init /\ [][Next]_vars

\* ------------------------------------------ CountBbl run by two threads
\* Pin runs an analysis routine on the application thread that executes the
\* block, with no lock.  Each thread goes through CountBbl one memory
\* access at a time: a counter increment is a load and a store, the scan,
\* push_front, the size test and pop_back are one step each.

Goto(t, pc, reg) == thr' = [thr EXCEPT ![t] = [@ EXCEPT !.pc = pc, !.reg = reg]]

\* entry into CountBbl and the load of cache->bblCount++
T_Call(t, bbl_addr) ==
    /\ ~finished
    /\ thr[t].pc = "idle"
    /\ Len(log) < MaxConcCalls
    /\ thr' = [thr EXCEPT ![t] =
                  [pc |-> "storeCount", bbl |-> bbl_addr, reg |-> bblCount]]
    /\ overlapped' = (overlapped \/ ~AllIdle)
    /\ log' = Append(log, [bbl |-> bbl_addr, pre |-> blockCache,
                            bblCount |-> bblCount, nHits |-> nHits,
                            nMisses |-> nMisses])
    /\ UNCHANGED <<knob, _max_size, blockCache, bblCount, nMisses, nHits,
                   finished, report>>

\* the store of cache->bblCount++
T_StoreCount(t) ==
    /\ thr[t].pc = "storeCount"
    /\ bblCount' = Inc(thr[t].reg)
    /\ Goto(t, "scan", 0)
    /\ UNCHANGED <<knob, _max_size, blockCache, nMisses, nHits,
                   finished, report, log, overlapped>>

\* the range-for loop, up to the load of nHits++ or of nMisses++
T_Scan(t) ==
    /\ thr[t].pc = "scan"
    /\ IF Scan(blockCache, thr[t].bbl)
       THEN Goto(t, "loadHits", 0)
       ELSE Goto(t, "loadMisses", 0)
    /\ UNCHANGED <<knob, _max_size, blockCache, bblCount, nMisses, nHits,
                   finished, report, log, overlapped>>

T_LoadHits(t) ==
    /\ thr[t].pc = "loadHits"
    /\ Goto(t, "storeHits", nHits)
    /\ UNCHANGED <<knob, _max_size, blockCache, bblCount, nMisses, nHits,
                   finished, report, log, overlapped>>

\* the store of nHits++; present = true; break; the call returns
T_StoreHits(t) ==
    /\ thr[t].pc = "storeHits"
    /\ nHits' = Inc(thr[t].reg)
    /\ thr' = [thr EXCEPT ![t] = Idle]
    /\ UNCHANGED <<knob, _max_size, blockCache, bblCount, nMisses,
                   finished, report, log, overlapped>>

T_LoadMisses(t) ==
    /\ thr[t].pc = "loadMisses"
    /\ Goto(t, "storeMisses", nMisses)
    /\ UNCHANGED <<knob, _max_size, blockCache, bblCount, nMisses, nHits,
                   finished, report, log, overlapped>>

T_StoreMisses(t) ==
    /\ thr[t].pc = "storeMisses"
    /\ nMisses' = Inc(thr[t].reg)
    /\ Goto(t, "pushFront", 0)
    /\ UNCHANGED <<knob, _max_size, blockCache, bblCount, nHits,
                   finished, report, log, overlapped>>

T_PushFront(t) ==
    /\ thr[t].pc = "pushFront"
    /\ blockCache' = push_front(thr[t].bbl, blockCache)
    /\ Goto(t, "testSize", 0)
    /\ UNCHANGED <<knob, _max_size, bblCount, nMisses, nHits,
                   finished, report, log, overlapped>>

\* if (blockCache.size() > _max_size); otherwise the call returns
T_TestSize(t) ==
    /\ thr[t].pc = "testSize"
    /\ IF SizeGreater(Len(blockCache), _max_size)
       THEN Goto(t, "popBack", 0)
       ELSE thr' = [thr EXCEPT ![t] = Idle]
    /\ UNCHANGED <<knob, _max_size, blockCache, bblCount, nMisses, nHits,
                   finished, report, log, overlapped>>

\* this->pop(); the call returns
T_PopBack(t) ==
    /\ thr[t].pc = "popBack"
    /\ blockCache' = pop(blockCache)
    /\ thr' = [thr EXCEPT ![t] = Idle]
    /\ UNCHANGED <<knob, _max_size, bblCount, nMisses, nHits,
                   finished, report, log, overlapped>>

NextConc ==
    \/ \E t \in Threads, bbl_addr \in BBLs : T_Call(t, bbl_addr)
    \/ \E t \in Threads : T_StoreCount(t)
    \/ \E t \in Threads : T_Scan(t)
    \/ \E t \in Threads : T_LoadHits(t)
    \/ \E t \in Threads : T_StoreHits(t)
    \/ \E t \in Threads : T_LoadMisses(t)
    \/ \E t \in Threads : T_StoreMisses(t)
    \/ \E t \in Threads : T_PushFront(t)
    \/ \E t \in Threads : T_TestSize(t)
    \/ \E t \in Threads : T_PopBack(t)
    \/ Fini

SpecConc == Init /\ [][NextConc]_vars

\* ---------------------------------------------------------------- helpers
Elems(q) == {q[i] : i \in 1..Len(q)}

\* at least one CountBbl call has completed
Called == log # <<>>

\* the most recent CountBbl call
Last == log[Len(log)]

\* the arguments of the calls so far, in order
Args == [i \in 1..Len(log) |-> log[i].bbl]

\* the most recent call found its block in the deque
LastWasHit == Last.bbl \in Elems(Last.pre)

\* the deque held exactly its maximum size when the most recent call began
LastPreFull == /\ ~SizeGreater(Len(Last.pre), _max_size)
               /\ SizeGreater(Len(Last.pre) + 1, _max_size)

\* ----------------------------------------------------------------- claims

\* C1: in the initial state and after every completed CountBbl call, for
\* every capacity, nHits + nMisses equals bblCount.
C1_HitsPlusMisses == nHits + nMisses = bblCount

C1_Witness == nHits >= 2 /\ nMisses >= 2 /\ bblCount = nHits + nMisses

\* C2: for every capacity >= 1, the number of entries held is at most the
\* capacity after every completed call.
C2_SizeWithinCapacity == knob >= 1 => get_size <= knob

\* the cache is full and at least one eviction has happened
C2_Witness == knob >= 1 /\ get_size = knob /\ nMisses > knob

\* C3: a call whose block is already held leaves the deque exactly as it
\* was: same elements, same order, same length.
C3_HitLeavesEntries ==
    (Called /\ LastWasHit) => blockCache = Last.pre

\* a hit on a block that is not at the front of a deque of several blocks
C3_Witness ==
    /\ Called
    /\ LastWasHit
    /\ Len(Last.pre) >= 2
    /\ Head(Last.pre) # Last.bbl
    /\ blockCache = Last.pre

\* C4: for every capacity N >= 1, the first N+1 calls of a run, when their
\* blocks are pairwise distinct, leave the first block absent, the other N
\* present and the size N; and every miss that finds the deque full removes
\* exactly one entry, the one at the back (the least recently inserted).
C4_EvictionExact ==
    /\ ( /\ knob >= 1
         /\ Len(log) = knob + 1
         /\ \A i, j \in 1..Len(log) : i # j => log[i].bbl # log[j].bbl )
       => /\ log[1].bbl \notin Elems(blockCache)
          /\ \A i \in 2..Len(log) : log[i].bbl \in Elems(blockCache)
          /\ get_size = knob
    /\ ( /\ knob >= 1
         /\ Called
         /\ ~LastWasHit
         /\ LastPreFull )
       => /\ Len(blockCache) = Len(Last.pre)
          /\ Elems(blockCache) =
                (Elems(Last.pre) \ {Last.pre[Len(Last.pre)]}) \cup {Last.bbl}
          /\ blockCache =
                <<Last.bbl>> \o SubSeq(Last.pre, 1, Len(Last.pre) - 1)

\* capacity 3 has just taken its fourth distinct block
C4_Witness ==
    /\ knob = MaxKnob
    /\ Len(log) = knob + 1
    /\ Cardinality({log[i].bbl : i \in 1..Len(log)}) = knob + 1
    /\ log[1].bbl \notin Elems(blockCache)
    /\ get_size = knob

\* C5: a call whose block is not held increments nMisses by one, leaves
\* nHits alone and leaves the block at the front of the deque, ahead of the
\* blocks held before, which keep their order.
C5_MissInsertsFront ==
    (Called /\ ~LastWasHit)
       => /\ nMisses = Last.nMisses + 1
          /\ nHits = Last.nHits
          /\ blockCache # <<>>
          /\ Head(blockCache) = Last.bbl
          /\ Len(blockCache) >= Len(Last.pre)
          /\ Tail(blockCache) = SubSeq(Last.pre, 1, Len(blockCache) - 1)

\* the same restricted to maximum sizes other than 0, where the block just
\* inserted is never the one popped
MissInsertsFront_NonZero ==
    (Called /\ ~LastWasHit /\ _max_size # ToUINT32(0))
       => /\ nMisses = Last.nMisses + 1
          /\ nHits = Last.nHits
          /\ blockCache # <<>>
          /\ Head(blockCache) = Last.bbl
          /\ Len(blockCache) >= Len(Last.pre)
          /\ Tail(blockCache) = SubSeq(Last.pre, 1, Len(blockCache) - 1)

\* C6: the deque never holds the same block twice.
C6_NoDuplicates ==
    \A i, j \in 1..Len(blockCache) :
        i # j => blockCache[i] # blockCache[j]

\* several blocks held, and a hit on one that is not at the front
C6_Witness ==
    /\ Len(blockCache) >= 3
    /\ Called
    /\ LastWasHit
    /\ Last.bbl = blockCache[Len(blockCache)]

\* C7: a call counts as a hit exactly when its block is held as the call
\* begins; a hit adds one to nHits only, a miss adds one to nMisses only.
C7_HitIffMember ==
    Called =>
        IF LastWasHit
        THEN nHits = Last.nHits + 1 /\ nMisses = Last.nMisses
        ELSE nMisses = Last.nMisses + 1 /\ nHits = Last.nHits

\* a hit on the second block of the deque, after earlier hits and misses
C7_Witness ==
    /\ Called
    /\ Len(Last.pre) >= 2
    /\ Last.bbl = Last.pre[2]
    /\ Last.nHits >= 1
    /\ nHits = Last.nHits + 1

\* C8: no step lowers bblCount, nHits or nMisses.
C8_CountersMonotone ==
    [][ /\ bblCount' >= bblCount
        /\ nHits' >= nHits
        /\ nMisses' >= nMisses ]_vars

\* all three counters have grown and the run has ended
C8_Witness == finished /\ nHits >= 1 /\ nMisses >= 2 /\ bblCount >= 3

\* C9: every call, hit or miss, adds exactly one to bblCount, so after k
\* calls bblCount is k.
C9_TotalCountsCalls ==
    /\ bblCount = Len(log)
    /\ Called => bblCount = Last.bblCount + 1

\* k = 4 calls, the last one a hit
C9_Witness == Len(log) = 4 /\ LastWasHit /\ bblCount = 4

\* C10: with capacity 3 and the deque <<1, 2, 3>>, a call for 2 and then a
\* call for 4 leave <<4, 1, 2>>; in general, after a hit on a full deque S
\* the next miss evicts the back of S, also when the hit was on that back.
C10_NoPromotion ==
    Len(log) >= 2 =>
        LET h == log[Len(log) - 1]
            S == h.pre
        IN  /\ ( /\ knob = 3
                 /\ S = <<1, 2, 3>>
                 /\ h.bbl = 2
                 /\ Last.bbl = 4 )
               => /\ Last.pre = <<1, 2, 3>>
                  /\ blockCache = <<4, 1, 2>>
            /\ ( /\ h.bbl \in Elems(S)
                 /\ Last.bbl \notin Elems(S)
                 /\ ~SizeGreater(Len(S), _max_size)
                 /\ SizeGreater(Len(S) + 1, _max_size) )
               => /\ Last.pre = S
                  /\ blockCache = <<Last.bbl>> \o SubSeq(S, 1, Len(S) - 1)
                  /\ S[Len(S)] \notin Elems(blockCache)

\* the scenario itself
C10_Witness ==
    /\ knob = 3
    /\ Len(log) >= 2
    /\ log[Len(log) - 1].pre = <<1, 2, 3>>
    /\ log[Len(log) - 1].bbl = 2
    /\ Last.bbl = 4
    /\ blockCache = <<4, 1, 2>>

\* C11: with capacity 2 the calls 1, 2, 1, 3 on a fresh cache end with
\* bblCount 4, nHits 1 (the second call for 1), nMisses 3, size 2 and the
\* deque <<3, 2>>.
C11_ScenarioA ==
    (knob = 2 /\ Args = <<1, 2, 1, 3>>)
       => /\ bblCount = 4
          /\ nHits = 1
          /\ nMisses = 3
          /\ get_size = 2
          /\ blockCache = <<3, 2>>
          /\ log[3].pre = <<2, 1>>
          /\ log[3].nHits = 0
          /\ log[4].nHits = 1
          /\ finished => report = <<4, 1, 3, 2>>

C11_Witness ==
    knob = 2 /\ Args = <<1, 2, 1, 3>> /\ blockCache = <<3, 2>> /\ finished

\* C12: with capacity 1 the calls 1, 2, 1 on a fresh cache end with
\* bblCount 3, nHits 0, nMisses 3 and the deque <<1>>; the call for 2 evicts
\* 1, so the last call is a miss.
C12_ScenarioB ==
    (knob = 1 /\ Args = <<1, 2, 1>>)
       => /\ bblCount = 3
          /\ nHits = 0
          /\ nMisses = 3
          /\ blockCache = <<1>>
          /\ log[3].pre = <<2>>
          /\ ~LastWasHit

C12_Witness ==
    knob = 1 /\ Args = <<1, 2, 1>> /\ blockCache = <<1>> /\ nMisses = 3

\* C13: for every knob value the constructed cache holds no block and its
\* three counters are 0; this is what is read back when no call was made.
C13_ConstructedEmpty ==
    ~Called
       => /\ get_size = 0
          /\ bblCount = 0
          /\ nHits = 0
          /\ nMisses = 0
          /\ finished => report = <<0, 0, 0, 0>>

\* a cache built from a non-positive knob value and read back untouched
C13_Witness == ~Called /\ knob <= 0 /\ finished /\ report = <<0, 0, 0, 0>>

\* C14: with capacity 0 the deque is empty after every call, every call is
\* a miss and nHits stays 0.
C14_ZeroCapacity ==
    knob = 0
       => /\ get_size = 0
          /\ nHits = 0
          /\ nMisses = bblCount
          /\ \A i \in 1..Len(log) : log[i].pre = <<>>

\* the same block presented three times in a row, each time a miss
C14_Witness ==
    /\ knob = 0
    /\ Len(log) >= 3
    /\ \A i \in 1..Len(log) : log[i].bbl = 1
    /\ nMisses = Len(log)
    /\ blockCache = <<>>

\* C15: for every knob value, 0 and negative values included, the number
\* of blocks held never exceeds the configured capacity.
C15_SizeWithinKnob == get_size <= knob

\* what the code does keep: the size never exceeds the stored unsigned
\* maximum, which for a negative knob value is 2^32 + knob
SizeWithinMaxSize == ~SizeGreater(get_size, _max_size)

\* the smaller of two numbers
Min(a, b) == IF a <= b THEN a ELSE b

\* the arguments of the calls that missed, oldest first
MissArgs ==
    LET misses == SelectSeq(log, LAMBDA e : e.bbl \notin Elems(e.pre))
    IN  [i \in 1..Len(misses) |-> misses[i].bbl]

\* the last k elements of s, newest first
LastReversed(s, k) == [i \in 1..k |-> s[Len(s) + 1 - i]]

\* C16: for every capacity N >= 1 the deque is, front first, the last
\* min(N, nMisses) blocks that missed, newest first; hits add nothing.
C16_FifoOfMisses ==
    knob >= 1
       => /\ Len(MissArgs) = nMisses
          /\ blockCache = LastReversed(MissArgs, Min(knob, nMisses))

\* more misses than the capacity, with hits in between
C16_Witness ==
    /\ knob = 2
    /\ nMisses >= 3
    /\ nHits >= 2
    /\ blockCache = LastReversed(MissArgs, 2)

\* C17: for every capacity >= 0 the size is min(capacity, nMisses) after
\* every call; so no call lowers the size, and a call that begins with the
\* size at the capacity ends with it there.
C17_SizeIsMin ==
    knob >= 0
       => /\ get_size = Min(knob, nMisses)
          /\ Called => get_size >= Len(Last.pre)
          /\ (Called /\ Len(Last.pre) = knob) => get_size = knob

\* a full deque that has stayed full over a miss
C17_Witness ==
    /\ knob = 2
    /\ Called
    /\ ~LastWasHit
    /\ Len(Last.pre) = 2
    /\ get_size = 2
    /\ nMisses >= 4

\* C18: for every capacity >= 1 the block of a call is held when the call
\* ends, so a second call in a row for the same block is a hit.
C18_RecordedIsHeld ==
    (knob >= 1 /\ Called)
       => /\ Last.bbl \in Elems(blockCache)
          /\ (Len(log) >= 2 /\ log[Len(log) - 1].bbl = Last.bbl)
                => /\ LastWasHit
                   /\ nHits = Last.nHits + 1
                   /\ nMisses = Last.nMisses

\* a miss on a full deque followed by a call for the same block
C18_Witness ==
    /\ knob >= 1
    /\ Len(log) >= 2
    /\ log[Len(log) - 1].bbl = Last.bbl
    /\ Len(log[Len(log) - 1].pre) = knob
    /\ Last.bbl \notin Elems(log[Len(log) - 1].pre)
    /\ nHits = Last.nHits + 1

\* some promise of the single-threaded cache is broken: the counters do
\* not add up, a block is held twice, or the size exceeds the capacity (a
\* negative knob value is stored as a maximum no run here can reach)
Broken ==
    \/ nHits + nMisses # bblCount
    \/ \E i, j \in 1..Len(blockCache) : i # j /\ blockCache[i] = blockCache[j]
    \/ knob >= 0 /\ get_size > knob

\* C19: with two threads in CountBbl and no synchronisation, a state with
\* every call complete is reached in which the counters do not add up, or a
\* block is held twice, or the size exceeds the capacity; while every run in
\* which no two calls were in flight together keeps all three.
C19_BrokenOnlyByOverlap == (AllIdle /\ ~overlapped) => ~Broken

\* both threads have completed a call and the counters do not add up
C19_Witness ==
    /\ AllIdle
    /\ overlapped
    /\ Len(log) = 2
    /\ log[2].pre = <<>>
    /\ nHits + nMisses # bblCount

====
